---- MODULE Spec2Model ----
(***************************************************************************)
(* Model of anki-copy-card-egui (src/main.rs): the AppState session state, *)
(* the per-fire background thread that synthesizes and submits a card, the *)
(* completion channel, and the create_audio_guide text normalizer.         *)
(*                                                                         *)
(* Text is a sequence of one-character strings.  Option<T> is a sequence   *)
(* of length 0 (None) or 1 (Some).                                         *)
(*                                                                         *)
(* Spec      the UI thread and the spawned threads, interleaved, over a    *)
(*           few texts, up to MaxInputs user inputs and MaxFired fires     *)
(* SpecSynth one Fire from each session state built from a wider set of    *)
(*           draft texts and carried cards                                 *)
(* SpecGuide create_audio_guide on every text up to MaxLen                 *)
(***************************************************************************)
EXTENDS Integers, Sequences, FiniteSets, TLC

VARIABLES
    self,       \* the AppState struct (main.rs:115-130)
    chan,       \* items queued in the crossbeam channel created at startup
    tasks,      \* one record per thread spawned by fire, in spawn order
    pc,         \* position of the UI thread inside update()
    lastOp,     \* history: last user operation or applied completion
    applied,    \* history: the attempts whose completion try_recv took, in order
    inputs,     \* history: number of user inputs handled
    ag_in,      \* create_audio_guide harness: argument
    ag_out,     \* create_audio_guide harness: returned value
    ag_pc       \* create_audio_guide harness: "idle" | "call" | "done"

vars == <<self, chan, tasks, pc, lastOp, applied, inputs, ag_in, ag_out, ag_pc>>

-----------------------------------------------------------------------------
(* Bounds *)

MaxFired == 2       \* Fire clicks explored
MaxInputs == 4      \* user inputs explored (edits, toggles, clicks)
MaxLen == 5         \* length of the create_audio_guide arguments explored

-----------------------------------------------------------------------------
(* Text helpers *)

None == <<>>
Some(x) == <<x>>

\* characters str::trim removes (Unicode White_Space) that occur in the model
WhiteSpace == {" ", "\n"}

RECURSIVE TrimStart(_)
TrimStart(s) ==
    IF s # <<>> /\ Head(s) \in WhiteSpace THEN TrimStart(Tail(s)) ELSE s

RECURSIVE TrimEnd(_)
TrimEnd(s) ==
    IF s # <<>> /\ s[Len(s)] \in WhiteSpace
    THEN TrimEnd(SubSeq(s, 1, Len(s) - 1))
    ELSE s

\* str::trim
Trim(s) == TrimEnd(TrimStart(s))

\* the replacement text "<br />"
Br == <<"<", "b", "r", " ", "/", ">">>

\* str::replace('\n', "<br />")
RECURSIVE ReplaceNewlines(_)
ReplaceNewlines(s) ==
    IF s = <<>> THEN <<>>
    ELSE (IF Head(s) = "\n" THEN Br ELSE <<Head(s)>>) \o ReplaceNewlines(Tail(s))

\* s.replace(&['(', ')', '{', '}', ' '], "")
StripChars == {"(", ")", "{", "}", " "}
Strip(s) == SelectSeq(s, LAMBDA c : c \notin StripChars)

\* index of the first "]" of s, 0 when there is none
RECURSIVE FirstClose(_, _)
FirstClose(s, i) ==
    IF i > Len(s) THEN 0
    ELSE IF s[i] = "]" THEN i
    ELSE FirstClose(s, i + 1)

\* Regex \[[^\]]*\] with replace_all(.., ""): leftmost match first, then the
\* scan resumes after the match.  At a "[" the pattern matches up to the first
\* following "]" ([^\]]* may run over further "[" characters).
RECURSIVE ReplaceAllSpans(_)
ReplaceAllSpans(s) ==
    IF s = <<>> THEN <<>>
    ELSE IF Head(s) = "[" /\ FirstClose(Tail(s), 1) > 0
         THEN ReplaceAllSpans(SubSeq(Tail(s), FirstClose(Tail(s), 1) + 1, Len(Tail(s))))
         ELSE <<Head(s)>> \o ReplaceAllSpans(Tail(s))

\* bug variant: Regex::replace (first match only) in place of replace_all
RECURSIVE ReplaceFirstSpan(_)
ReplaceFirstSpan(s) ==
    IF s = <<>> THEN <<>>
    ELSE IF Head(s) = "[" /\ FirstClose(Tail(s), 1) > 0
         THEN SubSeq(Tail(s), FirstClose(Tail(s), 1) + 1, Len(Tail(s)))
         ELSE <<Head(s)>> \o ReplaceFirstSpan(Tail(s))

create_audio_guide_first_only(s) == ReplaceFirstSpan(Strip(s))

create_audio_guide(s) == ReplaceAllSpans(Strip(s))

-----------------------------------------------------------------------------
(* Values of the session *)

\* GuiAddCardsFields (main.rs:68-77)
GuiAddCardsFields(front, back, back_paragraph, audio_guide, audio) ==
    [front |-> front, back |-> back, back_paragraph |-> back_paragraph,
     audio_guide |-> audio_guide, audio |-> audio]

\* the one channel of the process, made by AppStateResistReset::default at startup
ChanId == 1

\* impl Default for AppStateResistReset (main.rs:144-155)
DefaultAppStateResistReset ==
    [req_complete |-> ChanId, req_complete_s |-> ChanId, fired |-> 0,
     prev_card |-> None, maintain_prev |-> FALSE]

\* impl Default for AppState (main.rs:132-142)
DefaultAppState ==
    [r |-> DefaultAppStateResistReset, front |-> <<>>, audio_guide |-> <<>>,
     follow_front |-> TRUE, back |-> <<>>]

\* bug variant: reset written as *self = Self::default(), which also makes a
\* new channel
reset_all(s) ==
    [DefaultAppState EXCEPT !.r.req_complete = s.r.req_complete + 1,
                            !.r.req_complete_s = s.r.req_complete_s + 1]

\* bug variant: reset that keeps the channel and starts the counter again
reset_zeroes_fired(s) == [DefaultAppState EXCEPT !.r = [s.r EXCEPT !.fired = 0]]

\* bug variant: reset that forgets one draft field
reset_keeps_back(s) == [DefaultAppState EXCEPT !.r = s.r, !.back = s.back]

\* AppState::reset (main.rs:164-170): r is moved out and put back, every other
\* field comes from Self::default(); the two channels the temporaries create
\* are dropped inside the call.
reset(s) == [DefaultAppState EXCEPT !.r = s.r]

\* bug variant: the guide is not recomputed
audio_guide_follow_stale(s) == s

\* AppState::audio_guide_follow (main.rs:172-175)
audio_guide_follow(s) == [s EXCEPT !.audio_guide = create_audio_guide(s.front)]

-----------------------------------------------------------------------------
(* The external automation API (AnkiConnect), seen from anki_request *)

\* fields of the card on screen that the fresh branch reads (main.rs:56-66)
CurrentCards ==
    { [kanji |-> <<"K", "(", "j", ")">>, kana |-> <<"r">>,
       sentence_back |-> <<"<", "b", ">", "s", "<", "/", "b", ">">>,
       picture |-> <<"i">>, meaning |-> <<"m">>, kanken_audio |-> <<"u">>] }

\* outcomes of anki_request::<GuiCurrentCard>: ureq error, body that does not
\* deserialize, result: null, result present
FetchOutcomes == {"transport", "malformed", "no_result", "ok"}

\* outcomes of anki_request::<serde_json::Value> for guiAddCards: ureq error,
\* HTTP 200 whose JSON carries a non-null "error" (card refused), card added
SubmitOutcomes == {"transport", "rejected", "accepted"}

\* bug variant of anki_request: every answer that arrives is Ok
anki_request_never_fails(outcome) == TRUE

\* anki_request (main.rs:15-29) is Err exactly when send_json or into_json
\* fails; a JSON body with a non-null "error" deserializes into the requested
\* type (Value, or GuiCurrentCard whose error field is an Option).
anki_request_is_ok(outcome) == outcome \notin {"transport", "malformed"}

\* ammonia::Builder::empty().clean: no tag is allowed, text is kept.  Only
\* tag removal is modelled (the inputs hold no '&' and no unclosed '<').
RECURSIVE clean(_)
clean(s) ==
    IF s = <<>> THEN <<>>
    ELSE IF Head(s) = "<"
         THEN LET RECURSIVE After(_)
                  After(t) == IF t = <<>> THEN <<>>
                              ELSE IF Head(t) = ">" THEN Tail(t)
                              ELSE After(Tail(t))
              IN clean(After(Tail(s)))
         ELSE <<Head(s)>> \o clean(Tail(s))

-----------------------------------------------------------------------------
(* The closure run by the thread that fire spawns (main.rs:184-255) *)

\* bug variant: the merge branch overwrites unconditionally
merge_card_always_overwrites(p, front, back, audio_guide) ==
    [p EXCEPT !.front = front, !.back = back, !.audio_guide = audio_guide]

\* merge branch (main.rs:185-195)
merge_card(p, front, back, audio_guide) ==
    [p EXCEPT !.front = IF front # <<>> THEN front ELSE @,
              !.back = IF back # <<>> THEN back ELSE @,
              !.audio_guide = IF audio_guide # <<>> THEN audio_guide ELSE @]

\* bug variant: the guide falls back to the normalized headword
fresh_card_normalized(fields, front, back, audio_guide) ==
    GuiAddCardsFields(
        IF front = <<>> THEN fields.kanji \o <<"[">> \o fields.kana \o <<"]">>
                        ELSE front,
        IF back = <<>> THEN fields.meaning ELSE back,
        ReplaceNewlines(Trim(clean(fields.sentence_back) \o <<"\n">> \o fields.picture)),
        IF audio_guide = <<>> THEN create_audio_guide(fields.kanji) ELSE audio_guide,
        fields.kanken_audio)

\* fresh branch once the card on screen is known (main.rs:204-233)
fresh_card(fields, front, back, audio_guide) ==
    LET sentence == clean(fields.sentence_back)
    IN GuiAddCardsFields(
           IF front = <<>> THEN fields.kanji \o <<"[">> \o fields.kana \o <<"]">>
                           ELSE front,
           IF back = <<>> THEN fields.meaning ELSE back,
           ReplaceNewlines(Trim(sentence \o <<"\n">> \o fields.picture)),
           IF audio_guide = <<>> THEN fields.kanji ELSE audio_guide,
           fields.kanken_audio)

\* what a finished thread leaves behind: its locals are dropped, the record
\* keeps the outcome of its two requests
Finished(t, how) ==
    [t EXCEPT !.pc = how, !.prev_card = None, !.front = <<>>, !.audio_guide = <<>>,
              !.back = <<>>, !.draft = <<>>, !.new_card = None]

\* fire up to thread::spawn (main.rs:177-184): the values moved into the closure.
\* draft is history: the untrimmed texts the snapshot was taken from.
SpawnedThread(s) ==
    [sender |-> s.r.req_complete_s,
     prev_card |-> s.r.prev_card,
     front |-> Trim(s.front),
     audio_guide |-> Trim(s.audio_guide),
     back |-> ReplaceNewlines(Trim(s.back)),
     draft |-> <<s.front, s.audio_guide, s.back>>,
     pc |-> "spawned",
     new_card |-> None,
     fetch |-> "none",
     submit |-> "none"]

-----------------------------------------------------------------------------
(* Inputs the user types *)

FrontInputs == { <<" ", "f", "[", "g", "]">> }
AudioGuideInputs == { <<"g", " ">> }
BackInputs == { <<"p", "\n", "q", " ">> }

-----------------------------------------------------------------------------
(* The UI thread: one pass of update() (main.rs:277-366) is the poll of the  *)
(* channel followed by the handling of the input of that frame.              *)

Init ==
    /\ self = DefaultAppState
    /\ chan = <<>>
    /\ tasks = <<>>
    /\ pc = "poll"
    /\ lastOp = "start"
    /\ applied = <<>>
    /\ inputs = 0
    /\ ag_in = <<>>
    /\ ag_out = <<>>
    /\ ag_pc = "idle"

GuideUnchanged == UNCHANGED <<ag_in, ag_out, ag_pc>>

\* bug variant: the poll loops (while let Ok(..)) and drains the channel
RECURSIVE DrainAll(_, _)
DrainAll(s, q) ==
    IF q = <<>> THEN s
    ELSE DrainAll([reset(s) EXCEPT !.r.prev_card =
                       IF s.r.maintain_prev THEN Some(Head(q).card) ELSE None],
                  Tail(q))

poll_drains_everything(s, q) ==
    [state |-> DrainAll(s, q), rest |-> <<>>, taken |-> [k \in 1..Len(q) |-> q[k].attempt]]

\* bug variant: the completion keeps what was typed since the fire
poll_without_reset(s, q) ==
    IF q = <<>> THEN [state |-> s, rest |-> q, taken |-> <<>>]
    ELSE [state |-> [s EXCEPT !.r.prev_card =
                         IF s.r.maintain_prev THEN Some(Head(q).card) ELSE None],
          rest |-> Tail(q), taken |-> <<Head(q).attempt>>]

\* bug variant: the poll takes the item sent last
poll_takes_last(s, q) ==
    IF q = <<>> THEN [state |-> s, rest |-> q, taken |-> <<>>]
    ELSE [state |-> [reset(s) EXCEPT !.r.prev_card =
                         IF reset(s).r.maintain_prev THEN Some(q[Len(q)].card) ELSE None],
          rest |-> SubSeq(q, 1, Len(q) - 1), taken |-> <<q[Len(q)].attempt>>]

\* try_recv and the completion handling (main.rs:284-291), as the new AppState,
\* what stays queued and how many items were taken
poll_completion(s, q) ==
    IF q = <<>> THEN [state |-> s, rest |-> q, taken |-> <<>>]
    ELSE [state |-> [reset(s) EXCEPT !.r.prev_card =
                         IF reset(s).r.maintain_prev THEN Some(Head(q).card) ELSE None],
          rest |-> Tail(q), taken |-> <<Head(q).attempt>>]

\* bug variant: the poll waits for a completion (recv in place of try_recv)
PollCompletion_blocks ==
    /\ pc = "poll"
    /\ chan # <<>>
    /\ LET res == poll_completion(self, chan)
       IN /\ self' = res.state
          /\ chan' = res.rest
          /\ applied' = applied \o res.taken
          /\ lastOp' = "complete"
    /\ pc' = "ui"
    /\ UNCHANGED <<tasks, inputs>>
    /\ GuideUnchanged

\* main.rs:284-291
PollCompletion ==
    /\ pc = "poll"
    /\ LET res == poll_completion(self, chan)
       IN /\ self' = res.state
          /\ chan' = res.rest
          /\ applied' = applied \o res.taken
          /\ lastOp' = IF res.taken # <<>> THEN "complete" ELSE lastOp
    /\ pc' = "ui"
    /\ UNCHANGED <<tasks, inputs>>
    /\ GuideUnchanged

\* a frame without input
NoInput ==
    /\ pc = "ui"
    /\ pc' = "poll"
    /\ UNCHANGED <<self, chan, tasks, lastOp, applied, inputs>>
    /\ GuideUnchanged

\* the rest of a frame whose input was handled; op goes to the history
Handled(op) ==
    /\ inputs < MaxInputs
    /\ inputs' = inputs + 1
    /\ pc' = "poll"
    /\ lastOp' = op
    /\ UNCHANGED <<chan, tasks, applied>>
    /\ GuideUnchanged

\* "Custom Front" TextEdit (main.rs:300-311)
EditFront(t) ==
    /\ pc = "ui"
    /\ t # self.front
    /\ self' = IF self.follow_front
               THEN audio_guide_follow([self EXCEPT !.front = t])
               ELSE [self EXCEPT !.front = t]
    /\ Handled("input")

\* "Custom Audio Guide" TextEdit (main.rs:313-318)
EditAudioGuide(t) ==
    /\ pc = "ui"
    /\ t # self.audio_guide
    /\ self' = [self EXCEPT !.audio_guide = t]
    /\ Handled("input")

\* "Follow Front" checkbox (main.rs:319-325)
ToggleFollowFront ==
    /\ pc = "ui"
    /\ self' = IF ~self.follow_front
               THEN audio_guide_follow([self EXCEPT !.follow_front = TRUE])
               ELSE [self EXCEPT !.follow_front = FALSE]
    /\ Handled("input")

\* "Back" TextEdit (main.rs:329-334)
EditBack(t) ==
    /\ pc = "ui"
    /\ t # self.back
    /\ self' = [self EXCEPT !.back = t]
    /\ Handled("input")

\* "Maintain current card for next round" checkbox (main.rs:338-341)
ToggleMaintainPrev ==
    /\ pc = "ui"
    /\ self' = [self EXCEPT !.r.maintain_prev = ~@]
    /\ Handled("input")

\* "Fire" button, up to the return of self.fire (main.rs:343-345, 177-184)
ClickFire ==
    /\ pc = "ui"
    /\ Len(tasks) < MaxFired
    /\ tasks' = Append(tasks, SpawnedThread(self))
    /\ inputs < MaxInputs
    /\ inputs' = inputs + 1
    /\ pc' = "fire"
    /\ lastOp' = "fire"
    /\ UNCHANGED <<self, chan, applied>>
    /\ GuideUnchanged

\* bug variant: the counter is not written back
fired_after_fire_unchanged(fired) == fired

\* the value stored by self.r.fired = fired + 1 (main.rs:346)
fired_after_fire(fired) == fired + 1

\* "Fire" button, the write of the counter (main.rs:344, 346); fired was read
\* before self.fire and only the UI thread writes it
FireIncrement ==
    /\ pc = "fire"
    /\ self' = [self EXCEPT !.r.fired = fired_after_fire(@)]
    /\ pc' = "poll"
    /\ UNCHANGED <<chan, tasks, lastOp, applied, inputs>>
    /\ GuideUnchanged

\* "Reset" button (main.rs:348-350)
ClickReset ==
    /\ pc = "ui"
    /\ self' = reset(self)
    /\ Handled(IF lastOp \in {"reset", "reset_twice"} THEN "reset_twice" ELSE "reset")

\* "Reset Previous Card" button, shown while prev_card is Some (main.rs:353-361)
ClickResetPrev ==
    /\ pc = "ui"
    /\ self.r.prev_card # None
    /\ self' = [self EXCEPT !.r.prev_card = None]
    /\ Handled("input")

-----------------------------------------------------------------------------
(* The spawned threads; i is the position of the thread in spawn order *)

Background(i) ==
    /\ i \in 1..Len(tasks)
    /\ UNCHANGED <<self, pc, lastOp, applied, inputs>>
    /\ GuideUnchanged

\* bug variant: the thread shares the session and reads the drafts and
\* prev_card when it runs, not when it was spawned
TaskMerge_reads_live(i) ==
    /\ Background(i)
    /\ tasks[i].pc = "spawned"
    /\ tasks[i].prev_card # None
    /\ LET t == tasks[i]
           live == SpawnedThread(self)
           p == IF live.prev_card # None THEN live.prev_card[1] ELSE t.prev_card[1]
       IN tasks' = [tasks EXCEPT ![i] =
                       [t EXCEPT !.pc = "submit",
                                 !.new_card = Some(merge_card(p, live.front, live.back,
                                                              live.audio_guide))]]
    /\ UNCHANGED chan

\* merge branch: the thread starts and builds the card (main.rs:185-195)
TaskMerge(i) ==
    /\ Background(i)
    /\ tasks[i].pc = "spawned"
    /\ tasks[i].prev_card # None
    /\ LET t == tasks[i]
       IN tasks' = [tasks EXCEPT ![i] =
                       [t EXCEPT !.pc = "submit",
                                 !.new_card = Some(merge_card(t.prev_card[1], t.front,
                                                              t.back, t.audio_guide))]]
    /\ UNCHANGED chan

\* bug variant: a failed guiCurrentCard is asked again
TaskFetch_retries(i, outcome, fields) ==
    /\ Background(i)
    /\ tasks[i].pc = "spawned"
    /\ tasks[i].prev_card = None
    /\ LET t == [tasks[i] EXCEPT !.fetch = outcome]
       IN tasks' = [tasks EXCEPT ![i] =
                       IF ~anki_request_is_ok(outcome) THEN t
                       ELSE IF outcome = "no_result" THEN Finished(t, "failed")
                       ELSE [t EXCEPT !.pc = "submit",
                                      !.new_card = Some(fresh_card(fields, t.front, t.back,
                                                                   t.audio_guide))]]
    /\ UNCHANGED chan

\* fresh branch: the thread starts, asks for the card on screen and gives up
\* or builds the card (main.rs:196-234)
TaskFetch(i, outcome, fields) ==
    /\ Background(i)
    /\ tasks[i].pc = "spawned"
    /\ tasks[i].prev_card = None
    /\ LET t == [tasks[i] EXCEPT !.fetch = outcome]
       IN tasks' = [tasks EXCEPT ![i] =
                       IF ~anki_request_is_ok(outcome) \/ outcome = "no_result"
                       THEN Finished(t, "failed")
                       ELSE [t EXCEPT !.pc = "submit",
                                      !.new_card = Some(fresh_card(fields, t.front, t.back,
                                                                   t.audio_guide))]]
    /\ UNCHANGED chan

\* bug variant: the thread requests the repaint and forgets the send
sends_never(sender, receiver, ok) == FALSE

\* whether the thread queues its card: guiAddCards was Ok (main.rs:236-251) and
\* sender.send (main.rs:253) succeeds, which it does while the receiver of its
\* channel is alive
sends(sender, receiver, ok) == ok /\ sender = receiver

\* guiAddCards and, when it is Ok, sender.send(new_card) (main.rs:236-253)
TaskSubmit(i, outcome) ==
    /\ Background(i)
    /\ tasks[i].pc = "submit"
    /\ LET t == [tasks[i] EXCEPT !.submit = outcome]
           ok == anki_request_is_ok(outcome)
       IN /\ tasks' = [tasks EXCEPT ![i] =
                          IF ok THEN [t EXCEPT !.pc = "sent"] ELSE Finished(t, "failed")]
          /\ chan' = IF sends(t.sender, self.r.req_complete, ok)
                     THEN Append(chan, [card |-> t.new_card[1], attempt |-> i])
                     ELSE chan

\* c.request_repaint() and the end of the thread (main.rs:254-255)
TaskRepaint(i) ==
    /\ Background(i)
    /\ tasks[i].pc = "sent"
    /\ tasks' = [tasks EXCEPT ![i] = Finished(tasks[i], "done")]
    /\ UNCHANGED chan

-----------------------------------------------------------------------------

Next ==
    \/ PollCompletion
    \/ NoInput
    \/ \E t \in FrontInputs : EditFront(t)
    \/ \E t \in AudioGuideInputs : EditAudioGuide(t)
    \/ ToggleFollowFront
    \/ \E t \in BackInputs : EditBack(t)
    \/ ToggleMaintainPrev
    \/ ClickFire
    \/ FireIncrement
    \/ ClickReset
    \/ ClickResetPrev
    \/ \E i \in 1..MaxFired : TaskMerge(i)
    \/ \E i \in 1..MaxFired, o \in FetchOutcomes, f \in CurrentCards : TaskFetch(i, o, f)
    \/ \E i \in 1..MaxFired, o \in SubmitOutcomes : TaskSubmit(i, o)
    \/ \E i \in 1..MaxFired : TaskRepaint(i)

Spec == Init /\ [][Next]_vars

\* The UI thread keeps running frames: the poll that starts a frame, the end of
\* a frame and the counter write that ends a Fire are never postponed for
\* ever.  Nothing is assumed of the spawned threads or of the user.
Fairness ==
    /\ WF_vars(PollCompletion)
    /\ WF_vars(NoInput)
    /\ WF_vars(FireIncrement)

\* The frames and the threads with a user who clicks and does not type: what
\* the drafts hold has no part in what is sent and polled.
NextLive ==
    \/ PollCompletion
    \/ NoInput
    \/ ToggleMaintainPrev
    \/ ClickFire
    \/ FireIncrement
    \/ ClickReset
    \/ ClickResetPrev
    \/ \E i \in 1..MaxFired : TaskMerge(i)
    \/ \E i \in 1..MaxFired, o \in FetchOutcomes, f \in CurrentCards : TaskFetch(i, o, f)
    \/ \E i \in 1..MaxFired, o \in SubmitOutcomes : TaskSubmit(i, o)
    \/ \E i \in 1..MaxFired : TaskRepaint(i)

SpecLive == Init /\ [][NextLive]_vars /\ Fairness

-----------------------------------------------------------------------------
(* create_audio_guide on its own: every text over GuideChars up to MaxLen,  *)
(* and the text of tests::test_create_audio_guide (main.rs:268-273)         *)

GuideChars == {"a", "(", ")", "{", "}", " ", "[", "]"}

TextsUpTo(n) == UNION { [1..k -> GuideChars] : k \in 0..n }

TestInput ==
    <<"a", "b", "[", "]", "c", "[", "d", "e", "]", "f", " ", "g", "h", "[", "i",
      "j", "]", "k", " ", "(", "l", "m", "n", ")", " ", "{", "o", "p", "}">>

TestOutput == <<"a", "b", "c", "f", "g", "h", "k", "l", "m", "n", "o", "p">>

GuideSessionUnchanged == UNCHANGED <<self, chan, tasks, pc, lastOp, applied, inputs>>

\* a call of create_audio_guide on one of the texts
InitGuide ==
    /\ ag_in \in TextsUpTo(MaxLen) \cup {TestInput}
    /\ ag_out = <<>>
    /\ ag_pc = "call"
    /\ self = DefaultAppState
    /\ chan = <<>>
    /\ tasks = <<>>
    /\ pc = "poll"
    /\ lastOp = "start"
    /\ applied = <<>>
    /\ inputs = 0

GuideReturn ==
    /\ ag_pc = "call"
    /\ ag_out' = create_audio_guide(ag_in)
    /\ ag_pc' = "done"
    /\ UNCHANGED ag_in
    /\ GuideSessionUnchanged

NextGuide == GuideReturn

SpecGuide == InitGuide /\ [][NextGuide]_vars

-----------------------------------------------------------------------------
(* Card synthesis on its own: one Fire from every session state built from  *)
(* the texts below.  The single-line fields hold no newline; a carried card *)
(* is one the fresh branch can have built, so its front is never empty.     *)

SynthFronts == { <<>>, <<" ">>, <<" ", "f", "[", "g", "]">>, <<"x", " ", "y">> }
SynthAudioGuides == { <<>>, <<" ", " ">>, <<"g", " ">> }
SynthBacks == { <<>>, <<"\n", " ">>, <<"p", "\n", "q", " ">>, <<" ", "b">> }

SynthCurrentCards ==
    CurrentCards \cup
    { [kanji |-> <<>>, kana |-> <<>>, sentence_back |-> <<"s", "\n">>,
       picture |-> <<>>, meaning |-> <<>>, kanken_audio |-> <<>>] }

SynthPrevCards ==
    { fresh_card(f, d, d, d) : f \in SynthCurrentCards, d \in {<<>>, <<"z">>} }

InitSynth ==
    /\ self \in { [DefaultAppState EXCEPT !.front = f, !.audio_guide = g, !.back = b,
                                          !.r.prev_card = p] :
                      f \in SynthFronts, g \in SynthAudioGuides, b \in SynthBacks,
                      p \in {None} \cup { Some(c) : c \in SynthPrevCards } }
    /\ chan = <<>>
    /\ tasks = <<>>
    /\ pc = "ui"
    /\ lastOp = "start"
    /\ applied = <<>>
    /\ inputs = 0
    /\ ag_in = <<>>
    /\ ag_out = <<>>
    /\ ag_pc = "idle"

NextSynth ==
    \/ tasks = <<>> /\ ClickFire
    \/ FireIncrement
    \/ TaskMerge(1)
    \/ \E o \in FetchOutcomes, f \in SynthCurrentCards : TaskFetch(1, o, f)
    \/ \E o \in SubmitOutcomes : TaskSubmit(1, o)

SpecSynth == InitSynth /\ [][NextSynth]_vars

-----------------------------------------------------------------------------
(* Notions the properties share *)

Attempts == 1..Len(tasks)

\* the attempts whose card is in the channel
Queued == { chan[k].attempt : k \in 1..Len(chan) }

\* the attempts whose card a poll has taken
Applied == { applied[k] : k \in 1..Len(applied) }

\* this step is the poll of one frame
PollStep == pc = "poll" /\ pc' = "ui"

\* this step is the handling of a click on Reset
ResetStep == pc = "ui" /\ lastOp' \in {"reset", "reset_twice"} /\ inputs' = inputs + 1

\* this step is the write of the counter that ends a Fire
FireDoneStep == pc = "fire" /\ pc' = "poll"

FetchFailures == {"transport", "malformed", "no_result"}

IsBlank(text) == \A k \in 1..Len(text) : text[k] \in WhiteSpace

DraftsEmpty(s) == s.front = <<>> /\ s.audio_guide = <<>> /\ s.back = <<>>

-----------------------------------------------------------------------------
(* C1: fired_count counts attempts.  Outside the two steps of a Fire the    *)
(* counter equals the number of Fire clicks made so far, whatever became of *)
(* each attempt; only the step that completes a Fire changes it, by exactly *)
(* one; reset, poll, "reset previous card", edits and thread steps leave it *)
(* unchanged, so it never decreases.                                        *)

C1_CountsFires ==
    self.r.fired = Len(tasks) - (IF pc = "fire" THEN 1 ELSE 0)

C1_OnlyFireChanges ==
    IF FireDoneStep THEN self'.r.fired = self.r.fired + 1
                    ELSE self'.r.fired = self.r.fired

C1_FiredCountsAttempts == []C1_CountsFires /\ [][C1_OnlyFireChanges]_vars

\* two fires counted after a reset, one attempt failed and one still in flight
C1_Witness ==
    /\ self.r.fired = 2
    /\ lastOp = "reset"
    /\ tasks[1].pc = "failed"
    /\ tasks[2].pc = "submit"

-----------------------------------------------------------------------------
(* C2: silent failure on fetch.  An attempt fired without a previous card   *)
(* whose guiCurrentCard request fails (transport error, malformed answer,   *)
(* absent result) makes no guiAddCards request and never puts a card on the *)
(* channel, and once its Fire is complete the counter includes it.          *)

C2_FetchFailureSilent ==
    \A i \in Attempts :
        tasks[i].fetch \in FetchFailures =>
            /\ tasks[i].submit = "none"
            /\ tasks[i].pc = "failed"
            /\ i \notin Queued \cup Applied
            /\ (pc # "fire" \/ i < Len(tasks)) => self.r.fired >= i

\* both attempts failed at the fetch, in different ways, and polls went by
C2_Witness ==
    /\ Len(tasks) = 2
    /\ tasks[1].fetch = "transport"
    /\ tasks[2].fetch = "no_result"
    /\ self.r.fired = 2
    /\ pc = "ui"
    /\ chan = <<>>

-----------------------------------------------------------------------------
(* C3: silent failure on submit.  Stated as claimed: an attempt whose       *)
(* guiAddCards request fails by transport error or by the application       *)
(* refusing the card queues nothing and requests no wake-up.                *)

C3_SubmitFailureSilent ==
    \A i \in Attempts :
        tasks[i].submit \in {"transport", "rejected"} =>
            /\ tasks[i].pc = "failed"
            /\ i \notin Queued \cup Applied

-----------------------------------------------------------------------------
(* C4: merge mode is field-wise override-if-nonempty.  For an attempt fired *)
(* with previous card P and drafts D, the card handed to guiAddCards has    *)
(* front, back and audio_guide taken from the trimmed draft (back with its  *)
(* newlines as "<br />") unless the draft field is empty or all whitespace, *)
(* in which case P's value stays; back_paragraph and audio are P's.         *)

C4_MergeOverridesNonEmpty ==
    \A i \in Attempts :
        (tasks[i].prev_card # None /\ tasks[i].new_card # None) =>
            LET P == tasks[i].prev_card[1]
                D == tasks[i].draft
                c == tasks[i].new_card[1]
            IN /\ c.front = IF IsBlank(D[1]) THEN P.front ELSE Trim(D[1])
               /\ c.audio_guide = IF IsBlank(D[2]) THEN P.audio_guide ELSE Trim(D[2])
               /\ c.back = IF IsBlank(D[3]) THEN P.back ELSE ReplaceNewlines(Trim(D[3]))
               /\ ~IsBlank(D[3]) => \A k \in 1..Len(c.back) : c.back[k] # "\n"
               /\ c.back_paragraph = P.back_paragraph
               /\ c.audio = P.audio

\* a merge with an all-whitespace front (kept from P) and a two-line back
\* (overridden)
C4_Witness ==
    /\ Len(tasks) = 1
    /\ tasks[1].prev_card # None
    /\ tasks[1].new_card # None
    /\ tasks[1].draft[1] = <<" ">>
    /\ tasks[1].draft[3] = <<"p", "\n", "q", " ">>
    /\ tasks[1].new_card[1].front = tasks[1].prev_card[1].front
    /\ tasks[1].new_card[1].back = <<"p">> \o Br \o <<"q">>

-----------------------------------------------------------------------------
(* C5: at most one completion per poll.  A poll of a non-empty channel      *)
(* takes exactly the first item and leaves the others queued, so k queued   *)
(* completions need k polls; when maintain_prev is set, prev_card is then   *)
(* the card that poll took.  A poll of an empty channel takes nothing.      *)

C5_PollTakesOne ==
    PollStep =>
        IF chan = <<>>
        THEN chan' = <<>> /\ applied' = applied
        ELSE /\ chan' = Tail(chan)
             /\ applied' = Append(applied, Head(chan).attempt)
             /\ self'.r.maintain_prev => self'.r.prev_card = Some(Head(chan).card)

C5_OneCompletionPerPoll == [][C5_PollTakesOne]_vars

\* two completions were queued; the poll took the first, which is now
\* prev_card, and the second, a different card, is still queued
C5_Witness ==
    /\ pc = "ui"
    /\ lastOp = "complete"
    /\ applied = <<1>>
    /\ Len(chan) = 1
    /\ chan[1].attempt = 2
    /\ self.r.prev_card # None
    /\ self.r.prev_card # Some(chan[1].card)

-----------------------------------------------------------------------------
(* C6: completion transition.  When a poll takes card C, afterwards the     *)
(* three drafts are empty and follow_front is true, prev_card is C if       *)
(* maintain_prev was set at that poll and None otherwise, and maintain_prev *)
(* and the fired counter are what they were.                                *)

C6_CompletionResets ==
    (PollStep /\ chan # <<>>) =>
        /\ DraftsEmpty(self')
        /\ self'.follow_front
        /\ self'.r.prev_card = IF self.r.maintain_prev THEN Some(Head(chan).card) ELSE None
        /\ self'.r.maintain_prev = self.r.maintain_prev
        /\ self'.r.fired = self.r.fired

C6_CompletionTransition == [][C6_CompletionResets]_vars

\* the second attempt was fired in merge mode, on the card the first one left;
\* maintain_prev was switched off since, and the poll that took its card
\* cleared prev_card
C6_Witness ==
    /\ pc = "ui"
    /\ lastOp = "complete"
    /\ applied = <<1, 2>>
    /\ tasks[2].fetch = "none"
    /\ ~self.r.maintain_prev
    /\ self.r.prev_card = None
    /\ DraftsEmpty(self)

-----------------------------------------------------------------------------
(* C7: completion is reported exactly once per successful submission.       *)
(* Stated as claimed: no attempt has more than one item queued or applied,  *)
(* and the completions applied plus those pending are exactly the attempts  *)
(* whose submission succeeded and whose thread has queued its card.         *)

C7_OncePerSuccess ==
    /\ \A j, k \in 1..Len(chan) : chan[j].attempt = chan[k].attempt => j = k
    /\ \A j, k \in 1..Len(applied) : applied[j] = applied[k] => j = k
    /\ Queued \cap Applied = {}
    /\ Queued \cup Applied =
           { i \in Attempts : tasks[i].submit = "accepted" /\ tasks[i].pc \in {"sent", "done"} }

-----------------------------------------------------------------------------
(* C8: reset is idempotent.  A click on Reset leaves the three drafts empty *)
(* and follow_front true, resetting that state again would give the same    *)
(* state, and a second click right after the first changes nothing of the   *)
(* session.                                                                 *)

C8_ResetTwiceIsOnce ==
    ResetStep =>
        /\ DraftsEmpty(self')
        /\ self'.follow_front
        /\ reset(self') = self'
        /\ lastOp \in {"reset", "reset_twice"} => self' = self

C8_ResetIdempotent == [][C8_ResetTwiceIsOnce]_vars

\* Reset was clicked twice in a row, in a session with a counted fire
C8_Witness ==
    /\ lastOp = "reset_twice"
    /\ self.r.fired = 1
    /\ self.r.maintain_prev

-----------------------------------------------------------------------------
(* C9: reset keeps the reset-resistant state.  A click on Reset changes     *)
(* neither fired, prev_card, maintain_prev and the channel endpoints nor    *)
(* the items queued; the reset inside a completion keeps fired,             *)
(* maintain_prev and the endpoints and loses no queued item but the one     *)
(* taken; and every thread still holds a sender of the channel the session  *)
(* receives from, so what it sends after a reset is queued for a poll.      *)

C9_SendersConnected ==
    /\ self.r.req_complete_s = self.r.req_complete
    /\ \A i \in Attempts : tasks[i].sender = self.r.req_complete

C9_ResetKeeps ==
    /\ ResetStep => self'.r = self.r /\ chan' = chan
    /\ (PollStep /\ chan # <<>>) =>
           /\ reset(self).r = self.r
           /\ self'.r.fired = self.r.fired
           /\ self'.r.maintain_prev = self.r.maintain_prev
           /\ self'.r.req_complete = self.r.req_complete
           /\ self'.r.req_complete_s = self.r.req_complete_s
           /\ chan' = Tail(chan)
    /\ \A i \in Attempts :
           (tasks[i].pc = "submit" /\ tasks'[i].pc = "sent") =>
               chan' = Append(chan, [card |-> tasks[i].new_card[1], attempt |-> i])

C9_ResetKeepsResistantState == []C9_SendersConnected /\ [][C9_ResetKeeps]_vars

\* Reset was clicked with a card carried over, one completion queued and the
\* counter at two, and nothing of that was lost
C9_Witness ==
    /\ lastOp = "reset"
    /\ pc = "poll"
    /\ self.r.fired = 2
    /\ self.r.prev_card # None
    /\ Len(chan) = 1

-----------------------------------------------------------------------------
(* C10: create_audio_guide returns for every text, and what it returns      *)
(* holds none of ( ) { } and space and no "[" followed later by a "]"; the  *)
(* empty text gives the empty text and the text of the unit test gives      *)
(* "abcfghklmnop".                                                          *)

C10_GuideClean ==
    /\ ag_pc = "call" => ENABLED GuideReturn
    /\ ag_pc = "done" =>
           /\ \A k \in 1..Len(ag_out) : ag_out[k] \notin StripChars
           /\ \A j, k \in 1..Len(ag_out) : (j < k /\ ag_out[j] = "[") => ag_out[k] # "]"
           /\ ag_in = <<>> => ag_out = <<>>
           /\ ag_in = TestInput => ag_out = TestOutput

\* the call on the text of the unit test has returned
C10_Witness == ag_pc = "done" /\ ag_in = TestInput /\ ag_out = TestOutput

-----------------------------------------------------------------------------
(* C11: follow-front recomputation.  An edit of the front draft made while  *)
(* follow_front is set, and the switching on of follow_front, leave         *)
(* audio_guide = create_audio_guide(front); an edit of the front draft made *)
(* while follow_front is off, and the switching off of follow_front, leave  *)
(* audio_guide as it was.                                                   *)

\* this step is the handling of an edit of "Custom Front"
FrontEditStep ==
    /\ pc = "ui"
    /\ lastOp' = "input"
    /\ self'.front # self.front

\* this step is the handling of a click on "Follow Front"
FollowToggleStep ==
    /\ pc = "ui"
    /\ lastOp' = "input"
    /\ self'.follow_front # self.follow_front

C11_FollowStep ==
    /\ FrontEditStep =>
           /\ self'.follow_front = self.follow_front
           /\ self'.audio_guide = IF self.follow_front
                                  THEN create_audio_guide(self'.front)
                                  ELSE self.audio_guide
    /\ FollowToggleStep =>
           /\ self'.front = self.front
           /\ self'.audio_guide = IF self'.follow_front
                                  THEN create_audio_guide(self.front)
                                  ELSE self.audio_guide

C11_FollowFrontRecomputes == [][C11_FollowStep]_vars

\* the front was typed with follow_front off and the guide stayed empty, as
\* the snapshot of the Fire that followed shows; then follow_front was
\* switched on and the guide became the one derived from the front
C11_Witness ==
    /\ inputs = 4
    /\ applied = <<>>
    /\ Len(tasks) = 1
    /\ tasks[1].draft = << <<" ", "f", "[", "g", "]">>, <<>>, <<>> >>
    /\ self.follow_front
    /\ self.front = <<" ", "f", "[", "g", "]">>
    /\ self.audio_guide = <<"f">>

-----------------------------------------------------------------------------
(* C12: snapshot isolation.  The thread of an attempt holds the drafts and  *)
(* prev_card of the session as they were at its Fire; no step of the UI     *)
(* thread (edit, reset, "reset previous card", further Fire, completion)    *)
(* changes an existing thread; the card a thread builds and queues is the   *)
(* card of its own snapshot (and, in the fresh branch, of the card on       *)
(* screen); and a thread step changes nothing of the session: at most it    *)
(* appends one item to the channel.                                         *)

\* the card the merge branch makes of a snapshot
SnapshotMerge(t) ==
    merge_card(t.prev_card[1], Trim(t.draft[1]), ReplaceNewlines(Trim(t.draft[3])),
               Trim(t.draft[2]))

\* the cards the fresh branch can make of a snapshot
SnapshotFresh(t) ==
    { fresh_card(f, Trim(t.draft[1]), ReplaceNewlines(Trim(t.draft[3])), Trim(t.draft[2])) :
          f \in CurrentCards }

C12_Step ==
    /\ pc' # pc => \A i \in Attempts : tasks'[i] = tasks[i]
    /\ Len(tasks') > Len(tasks) =>
           /\ tasks'[Len(tasks')].draft = <<self.front, self.audio_guide, self.back>>
           /\ tasks'[Len(tasks')].prev_card = self.r.prev_card
    /\ pc' = pc =>
           /\ self' = self
           /\ applied' = applied
           /\ Len(tasks') = Len(tasks)
           /\ chan' = chan \/ (Len(chan') = Len(chan) + 1 /\ SubSeq(chan', 1, Len(chan)) = chan)
    /\ \A i \in Attempts :
           /\ (tasks[i].pc = "spawned" /\ tasks'[i].pc = "submit") =>
                  /\ tasks'[i].draft = tasks[i].draft
                  /\ tasks'[i].prev_card = tasks[i].prev_card
                  /\ IF tasks[i].prev_card # None
                     THEN tasks'[i].new_card = Some(SnapshotMerge(tasks[i]))
                     ELSE tasks'[i].new_card \in { Some(c) : c \in SnapshotFresh(tasks[i]) }
           /\ (tasks[i].pc = "submit" /\ tasks'[i].pc = "sent") =>
                  /\ tasks'[i].new_card = tasks[i].new_card
                  /\ chan' = Append(chan, [card |-> tasks[i].new_card[1], attempt |-> i])

C12_SnapshotIsolation == [][C12_Step]_vars

\* the second attempt merged into the card the first one left and queued the
\* result, built from the empty drafts of its Fire, although the front draft
\* was typed after that Fire
C12_Witness ==
    /\ Len(tasks) = 2
    /\ tasks[2].pc = "sent"
    /\ tasks[2].prev_card # None
    /\ tasks[2].draft = << <<>>, <<>>, <<>> >>
    /\ self.front = <<" ", "f", "[", "g", "]">>
    /\ chan # <<>>
    /\ chan[Len(chan)].attempt = 2
    /\ chan[Len(chan)].card = tasks[2].prev_card[1]

-----------------------------------------------------------------------------
(* C13: the UI thread never waits for a spawned thread.  Whatever the       *)
(* threads in flight and the items queued, the poll can be taken at the     *)
(* start of a frame (on an empty channel too), every input of the frame can *)
(* be handled (within the number of inputs and fires explored), the counter *)
(* write that ends a Fire can be taken, and every thread in flight can take *)
(* its next step whatever the other threads and the UI thread are doing.    *)

C13_ForegroundNeverBlocks ==
    /\ pc = "poll" => ENABLED PollCompletion
    /\ pc = "fire" => ENABLED FireIncrement
    /\ pc = "ui" => ENABLED NoInput
    /\ (pc = "ui" /\ inputs < MaxInputs) =>
           /\ ENABLED ClickReset
           /\ ENABLED ToggleFollowFront
           /\ ENABLED ToggleMaintainPrev
           /\ Len(tasks) < MaxFired => ENABLED ClickFire
           /\ \A t \in FrontInputs \cup {<<>>} : t # self.front => ENABLED EditFront(t)
           /\ \A t \in AudioGuideInputs \cup {<<>>} :
                  t # self.audio_guide => ENABLED EditAudioGuide(t)
           /\ \A t \in BackInputs \cup {<<>>} : t # self.back => ENABLED EditBack(t)
    /\ \A i \in Attempts :
           /\ tasks[i].pc = "spawned" =>
                  IF tasks[i].prev_card # None
                  THEN ENABLED TaskMerge(i)
                  ELSE \E f \in CurrentCards : ENABLED TaskFetch(i, "transport", f)
           /\ tasks[i].pc = "submit" => ENABLED TaskSubmit(i, "accepted")
           /\ tasks[i].pc = "sent" => ENABLED TaskRepaint(i)

\* a frame starts on an empty channel with two attempts in flight, one
\* waiting for guiAddCards and one not yet started
C13_Witness ==
    /\ pc = "poll"
    /\ chan = <<>>
    /\ Len(tasks) = 2
    /\ tasks[1].pc = "submit"
    /\ tasks[2].pc = "spawned"
    /\ inputs < MaxInputs

-----------------------------------------------------------------------------
(* C14: every queued completion is eventually applied.  While the UI thread *)
(* keeps running frames, every attempt whose card is in the channel has it  *)
(* taken by a later poll; and a thread sends its card before it requests    *)
(* the repaint, so that when the repaint is requested the card is in the    *)
(* channel or a poll has taken it already.                                  *)

C14_QueuedIsApplied == \A i \in 1..MaxFired : (i \in Queued) ~> (i \in Applied)

C14_SentBeforeRepaint ==
    \A i \in Attempts : tasks[i].pc \in {"sent", "done"} => i \in Queued \cup Applied

C14_EventuallyApplied == C14_QueuedIsApplied /\ []C14_SentBeforeRepaint

\* C14 as stated: the same, and the channel holds an item when a thread
\* requests the repaint, so that the poll of the frame it triggers takes one
\* (between the request and that poll nothing takes an item)
C14_RepaintFindsItem ==
    \A i \in Attempts : (tasks[i].pc = "sent" /\ tasks'[i].pc = "done") => chan # <<>>

C14_AsStated == C14_QueuedIsApplied /\ [][C14_RepaintFindsItem]_vars

\* both attempts have requested their repaint; the card of the first was
\* taken by a poll and the card of the second waits for the next one
C14_Witness ==
    /\ Len(tasks) = 2
    /\ tasks[1].pc = "done"
    /\ tasks[2].pc = "done"
    /\ applied = <<1>>
    /\ Queued = {2}

-----------------------------------------------------------------------------
(* C15: create_audio_guide strips "(", ")", "{", "}" and the space first    *)
(* and removes bracket spans second, and every removed span starts at the   *)
(* nearest "[" before its "]": the result is the stripped text without its  *)
(* spans "[" .. "]" that hold no further "[" (an earlier unmatched "[" is   *)
(* kept).                                                                   *)

\* index of the first "]" of s that no "[" precedes, 0 when there is none
RECURSIVE C15_NearestClose(_, _)
C15_NearestClose(s, i) ==
    IF i > Len(s) THEN 0
    ELSE IF s[i] = "]" THEN i
    ELSE IF s[i] = "[" THEN 0
    ELSE C15_NearestClose(s, i + 1)

\* s without the spans that run from a "[" to the next "]" with no "[" between
RECURSIVE C15_NearestSpansRemoved(_)
C15_NearestSpansRemoved(s) ==
    IF s = <<>> THEN <<>>
    ELSE IF Head(s) = "[" /\ C15_NearestClose(Tail(s), 1) > 0
         THEN C15_NearestSpansRemoved(
                  SubSeq(Tail(s), C15_NearestClose(Tail(s), 1) + 1, Len(Tail(s))))
         ELSE <<Head(s)>> \o C15_NearestSpansRemoved(Tail(s))

C15_NearestBracket ==
    ag_pc = "done" => ag_out = C15_NearestSpansRemoved(Strip(ag_in))

-----------------------------------------------------------------------------
(* C16: fresh-mode synthesis.  For an attempt fired without a previous card *)
(* whose guiCurrentCard succeeded on the card F with drafts D, the card     *)
(* handed to guiAddCards has front = trimmed D.front, or "kanji[kana]" of F *)
(* when that is empty; back = trimmed D.back with its newlines as "<br />", *)
(* or F's meaning; audio_guide = trimmed D.audio_guide, or F's kanji as it  *)
(* is (not normalized); audio = F's audio; back_paragraph = the cleaned     *)
(* sentence of F, a newline and F's picture, trimmed, newlines as "<br />", *)
(* whatever the drafts are.                                                 *)

\* the card the claim describes for the card on screen f and the drafts D
C16_Described(f, D) ==
    [front |-> IF IsBlank(D[1]) THEN f.kanji \o <<"[">> \o f.kana \o <<"]">>
                                ELSE Trim(D[1]),
     back |-> IF IsBlank(D[3]) THEN f.meaning ELSE ReplaceNewlines(Trim(D[3])),
     back_paragraph |->
         ReplaceNewlines(Trim(clean(f.sentence_back) \o <<"\n">> \o f.picture)),
     audio_guide |-> IF IsBlank(D[2]) THEN f.kanji ELSE Trim(D[2]),
     audio |-> f.kanken_audio]

\* the card on screen is known from the card built: the cards of
\* SynthCurrentCards differ in kanken_audio
C16_FreshSynthesis ==
    \A i \in Attempts :
        (tasks[i].fetch = "ok" /\ tasks[i].new_card # None) =>
            /\ tasks[i].prev_card = None
            /\ \E f \in SynthCurrentCards :
                   /\ f.kanken_audio = tasks[i].new_card[1].audio
                   /\ tasks[i].new_card[1] = C16_Described(f, tasks[i].draft)

\* a fresh card with every fallback but the back: all-whitespace front and
\* guide drafts, a two-line back draft, a headword with parentheses
C16_Witness ==
    /\ Len(tasks) = 1
    /\ tasks[1].fetch = "ok"
    /\ tasks[1].submit = "accepted"
    /\ tasks[1].new_card # None
    /\ tasks[1].draft = << <<" ">>, <<" ", " ">>, <<"p", "\n", "q", " ">> >>
    /\ tasks[1].new_card[1].audio_guide = <<"K", "(", "j", ")">>
    /\ tasks[1].new_card[1].back = <<"p">> \o Br \o <<"q">>
    /\ tasks[1].new_card[1].back_paragraph = <<"s">> \o Br \o <<"i">>

-----------------------------------------------------------------------------
(* C17: mode selection and call sequence.  An attempt fired with a previous *)
(* card never calls guiCurrentCard and calls guiAddCards once, whatever     *)
(* guiCurrentCard would answer; an attempt fired without one calls          *)
(* guiCurrentCard once and calls guiAddCards at most once, only after       *)
(* guiCurrentCard succeeded with a result; no call is made a second time.   *)

\* a step that calls guiCurrentCard for attempt i, and one that calls guiAddCards
C17_FetchCall(i) == tasks'[i].fetch # tasks[i].fetch
C17_SubmitCall(i) == tasks'[i].submit # tasks[i].submit

C17_Step ==
    \A i \in Attempts :
        /\ C17_FetchCall(i) =>
               /\ tasks[i].fetch = "none"
               /\ tasks[i].submit = "none"
               /\ tasks[i].prev_card = None
        /\ C17_SubmitCall(i) =>
               /\ tasks[i].submit = "none"
               /\ IF tasks[i].prev_card # None THEN tasks[i].fetch = "none"
                                               ELSE tasks[i].fetch = "ok"

\* the calls an attempt has made when its thread is over, and before
C17_Calls ==
    \A i \in Attempts :
        /\ tasks[i].pc = "spawned" => tasks[i].fetch = "none" /\ tasks[i].submit = "none"
        /\ tasks[i].pc = "submit" => tasks[i].submit = "none"
        /\ tasks[i].pc \in {"sent", "done"} =>
               tasks[i].fetch \in {"none", "ok"} /\ tasks[i].submit # "none"
        /\ tasks[i].pc = "failed" =>
               \/ tasks[i].fetch \in FetchFailures /\ tasks[i].submit = "none"
               \/ tasks[i].fetch \in {"none", "ok"} /\ tasks[i].submit # "none"

C17_CallSequence == []C17_Calls /\ [][C17_Step]_vars

\* a merge attempt that succeeded without guiCurrentCard, after a fresh
\* attempt that asked once and submitted once
C17_Witness ==
    /\ Len(tasks) = 2
    /\ tasks[1].pc = "done" /\ tasks[1].fetch = "ok" /\ tasks[1].submit = "accepted"
    /\ tasks[2].pc = "done" /\ tasks[2].fetch = "none" /\ tasks[2].submit = "accepted"
    /\ applied = <<1, 2>>

-----------------------------------------------------------------------------
(* C18: fired bounds the attempts under way.  Whenever the UI thread is     *)
(* outside the Fire handler, the number of attempts whose thread has begun  *)
(* to run, and so the number of cards ever sent on the channel, is at most  *)
(* fired; inside the handler, between thread::spawn and the write of the    *)
(* counter, they exceed it by at most one; the number of completions        *)
(* applied is at most fired in every state.                                 *)

\* the attempts whose thread has begun to run
C18_Started == { i \in Attempts : tasks[i].pc # "spawned" }

\* the number of cards ever sent on the channel
C18_Enqueued == Len(applied) + Len(chan)

C18_FiredBoundsStarted ==
    /\ Cardinality(C18_Started) <= self.r.fired + (IF pc = "fire" THEN 1 ELSE 0)
    /\ C18_Enqueued <= self.r.fired + (IF pc = "fire" THEN 1 ELSE 0)
    /\ Len(applied) <= self.r.fired

\* C18 as stated: the bound holds in every state
C18_AsStated ==
    /\ Cardinality(C18_Started) <= self.r.fired
    /\ C18_Enqueued <= self.r.fired

\* the first Fire: its thread has sent its card and the counter is not yet
\* written
C18_Witness ==
    /\ pc = "fire"
    /\ self.r.fired = 0
    /\ Len(tasks) = 1
    /\ tasks[1].pc = "sent"
    /\ Len(chan) = 1

-----------------------------------------------------------------------------
(* C19: a failed attempt causes no state transition.  Stated as claimed: no *)
(* step of a thread changes the session, a poll never takes the card of an  *)
(* attempt whose guiCurrentCard or guiAddCards failed (error, absent        *)
(* result, card refused), so that the session changes on account of none,   *)
(* and a poll that finds the channel empty leaves the session as it is.     *)

C19_Failed(i) ==
    \/ tasks[i].fetch \in FetchFailures
    \/ tasks[i].submit \in {"transport", "rejected"}

C19_Step ==
    /\ (\E i \in Attempts : tasks'[i] # tasks[i]) => self' = self
    /\ (PollStep /\ chan = <<>>) => (self' = self /\ applied' = applied)
    /\ (PollStep /\ chan # <<>>) => ~C19_Failed(chan[1].attempt)
    /\ ~PollStep => applied' = applied

C19_FailedAttemptInert == [][C19_Step]_vars

-----------------------------------------------------------------------------
(* C20: completions are applied in the order they were sent, which need not *)
(* be the order of the fires.  The attempts applied followed by those       *)
(* queued are the send order and only grow at the end; a poll takes the     *)
(* oldest item and, with maintain_prev on, makes its card prev_card, so     *)
(* that once the channel is empty prev_card is the card sent last; a Fire   *)
(* hands its thread the prev_card of the session, which only a completion   *)
(* applied or "Reset Previous Card" changes, so attempts fired with no      *)
(* completion applied between them start from the same prev_card and none   *)
(* merges the card of another.                                              *)

\* the attempts in the order their cards were sent
C20_SendOrder == applied \o [k \in 1..Len(chan) |-> chan[k].attempt]

C20_Step ==
    /\ \/ C20_SendOrder' = C20_SendOrder
       \/ \E i \in Attempts : C20_SendOrder' = Append(C20_SendOrder, i)
    /\ applied' # applied =>
           /\ PollStep
           /\ chan # <<>>
           /\ applied' = Append(applied, chan[1].attempt)
           /\ chan' = Tail(chan)
           /\ self.r.maintain_prev => self'.r.prev_card = Some(chan[1].card)
    /\ Len(tasks') > Len(tasks) =>
           tasks'[Len(tasks')].prev_card = self.r.prev_card
    /\ self'.r.prev_card # self.r.prev_card =>
           \/ applied' # applied
           \/ pc = "ui" /\ self'.r.prev_card = None

\* no completion applied yet: every attempt started without a previous card
C20_SameSnapshot ==
    applied = <<>> =>
        \A i \in Attempts :
            /\ tasks[i].pc \in {"spawned", "submit", "sent"} => tasks[i].prev_card = None
            /\ tasks[i].pc \in {"submit", "sent", "done"} => tasks[i].fetch = "ok"

====
